---- MODULE Spec2Model ----
(***************************************************************************)
(* A state-machine model of the drone scheduling harness.                  *)
(*                                                                         *)
(* Two builds of the program are modelled side by side, selected by the    *)
(* variable build, which is fixed at start-up:                             *)
(*   "final"     src/work_dir/udp_test_receiver.cpp  (PANIC and signals    *)
(*               run cleanup_and_exit, which calls std::exit(0))           *)
(*   "collector" src/work_dir/data_collector.cpp     (PANIC and signals    *)
(*               clear system_running; main joins, then cleans up)        *)
(*                                                                         *)
(* Every thread has a program counter pc[t]; a step of the model is one    *)
(* statement group of the source between two synchronisation points (a     *)
(* lock acquisition, the critical section up to its release, a sleep).     *)
(* A thread inside cleanup_and_exit / cleanup_resources has its position   *)
(* in cpc[t]; cleanup_and_exit never returns, so a thread whose cpc is not *)
(* "none" takes no step of its task any more.                              *)
(*                                                                         *)
(* Bounded exploration: a run schedules the tasks in the set scheduled,     *)
(* fixed at start-up; a task outside it is starved of the processor until  *)
(* the run shuts down and the scheduled tasks have returned.  main is      *)
(* always there.                                                           *)
(* The environment sends pending datagrams and sigleft termination         *)
(* signals.  A run schedules MaxScheduled tasks and may be signalled, or   *)
(* schedules one task more and is not signalled.                           *)
(*                                                                         *)
(* Numbers: throttle, pitch and roll are the integers the commands         *)
(* produce.  velocity is kept in units of 1e-7 m/s and altitude in units   *)
(* of 1e-9 m, so that one integration step with dt = 0.01 is exact integer *)
(* arithmetic (the float rounding of the source is not modelled).          *)
(***************************************************************************)
EXTENDS Integers, FiniteSets, Sequences, TLC

VARIABLES
    build,           \* which source file is running
    scheduled,       \* the tasks that get the processor in this run
    pc,              \* pc[t]: position of thread t in its task function
    cpc,             \* cpc[t]: position of thread t inside the cleanup routine
    holds,           \* holds[t]: the mutexes thread t owns
    shared_state,    \* DroneState
    global_stats,    \* SystemStats
    system_running,  \* std::atomic<bool> system_running
    exited,          \* "running", "exit0" (status 0) or "abort" (terminate)
    cmd,             \* task_networking's local string cmd
    vi,              \* task_vision's loop index i
    pending,         \* datagrams the environment has still to send
    sigleft,         \* termination signals the environment has still to send
    spurious,        \* spurious wake-ups of the condition wait so far
    raises,          \* PANIC commands applied so far
    wakes,           \* times task_emergency has passed its wait
    now,             \* steady_clock::now() at task_flight's last deadline test (ms)
    next_wake,       \* task_flight's local next_wake (ms)
    delayed,         \* flight cycles into which a delay was injected so far
    ups,             \* UP tokens received in a row since start-up, -1 once broken
    priority,        \* priority[t]: SCHED_FIFO priority of task t, 0 = default policy
    affinity,        \* affinity[t]: the core task t is pinned to, -1 = not pinned
    warned,          \* tasks for which "[Scheduler] FAILED" was written to cerr
    transport,       \* task_networking's socket: "unset", "up" or "failed"
    dur,             \* task_flight's local dur (microseconds) of the last cycle
    maxdur           \* the largest dur measured so far

vars == <<build, scheduled, pc, cpc, holds, shared_state, global_stats,
          system_running, exited, cmd, vi, pending, sigleft, spurious, raises, wakes,
          now, next_wake, delayed, ups,
          priority, affinity, warned, transport, dur, maxdur>>

(*************************** bounds of the model ***************************)
MaxCmds == 2        \* datagrams the environment sends
MaxScheduled == 2   \* tasks scheduled in a run that may be signalled
MaxSignals == 1     \* termination signals the environment sends
MaxSpurious == 1    \* spurious wake-ups of cv_emergency.wait
MaxLoops == 1       \* flight cycles started
MaxFrames == 1      \* vision frames counted between two monitor resets
VisionBurst == 1    \* iterations of task_vision's inner for loop (100 in the source)
MaxTokens == 11     \* tokens applied in the command-table specification
MaxCycles == 6      \* flight cycles of the timed specification
MaxSteps == 3       \* integration steps of the physics specification
MaxInputs == 1      \* commands applied between the steps of the physics specification

(******************************* constants *********************************)
Period == 10        \* next_wake += std::chrono::milliseconds(10)

(****************************** vocabulary *********************************)
Tasks == {"flight", "vision", "net", "emerg", "monitor"}
Threads == Tasks \cup {"main"}
Locks == {"state_mutex", "stats_mutex"}
Builds == {"final", "collector"}

\* The command tokens task_networking recognises, and one it does not.
Recognized == {"PANIC", "UP", "DOWN", "FRONT", "BACK", "LEFT", "RIGHT", "STOP"}
\* The tokens the environment sends in the concurrent specification.
CoreCmds == {"PANIC", "UP", "FRONT"}
\* The tokens of the command-table specification: the recognised ones, a
\* wrong-case one and one with a recognised prefix.  A token is the string
\* cmd(buffer) that task_networking compares with ==.
Tokens == Recognized \cup {"up", "UPX"}
\* Timed specification: the delays injected into a flight cycle (ms, each
\* longer than the period) and the running time of a cycle without one.
Delays == {Period + 5, 2 * Period + 5, 3 * Period + 5}
WorkTimes == {0, 1}
\* The values frame_count / elapsed takes in the concurrent specification.
FpsSamples == {0, 1}
\* The values get_kernel_preemptions() returns.
PreemptSamples == {0, 1}

\* The values of task_flight's dur, in microseconds.
DurSamples == {0, 3, 5}
\* The values of main's target_core: -1, or 0 when argv[1] is "1".
Cores == {-1, 0}
\* The threads main passes to set_priority and pin_thread (t1 .. t4).
Prioritized == {"emerg", "flight", "net", "vision"}

\* An assignment that puts every task at the same priority.
PriorityTableFlat ==
    [t \in Tasks |-> IF t \in Prioritized THEN 50 ELSE 0]

\* main: set_priority(t4, 90, "Emergency"); set_priority(t1, 50, "Flight");
\* set_priority(t3, 30, "Networking"); set_priority(t2, 10, "Vision");
\* t5, the monitor, keeps the default policy (0).
PriorityTable ==
    [t \in Tasks |->
        CASE t = "emerg"  -> 90
          [] t = "flight" -> 50
          [] t = "net"    -> 30
          [] t = "vision" -> 10
          [] OTHER        -> 0]

\* struct DroneState, with its member initialisers.
DroneState ==
    [throttle |-> 0, pitch |-> 0, roll |-> 0, yaw |-> 0,
     altitude |-> 0, velocity |-> 0, emergency_triggered |-> FALSE]

\* struct SystemStats, with its member initialisers.
SystemStats ==
    [flight_loops |-> 0, flight_exec_avg_us |-> 0,
     flight_deadline_misses |-> 0, net_packets |-> 0,
     net_preempts |-> 0, vision_fps |-> 0, vision_frames |-> 0, vision_active |-> FALSE,
     emergency_status |-> "STANDBY"]

Min(a, b) == IF a < b THEN a ELSE b
Max(a, b) == IF a > b THEN a ELSE b
Abs(a) == IF a < 0 THEN -a ELSE a

(**************************** std::mutex ***********************************)
\* No thread owns mutex l.
Free(l) == \A u \in Threads : l \notin holds[u]

\* A lock that excludes nobody (what mutual exclusion rules out).
CanLockNoExclusion(t, l) == TRUE

\* std::lock_guard / std::unique_lock constructor: blocks until l is free.
CanLock(t, l) == Free(l)

Locked(t, l) == [holds EXCEPT ![t] = @ \cup {l}]
Unlocked(t, l) == [holds EXCEPT ![t] = @ \ {l}]

Goto(t, p) == [pc EXCEPT ![t] = p]

\* The positions of a task function that has returned.
Finished == {"fl_done", "v_done", "net_done", "em_done", "mon_done"}

\* Thread t gets the processor: main and the scheduled tasks always; a starved
\* task once the run is shutting down and the scheduled tasks have returned.
Runnable(t) ==
    \/ t \in scheduled \cup {"main"}
    \/ ~system_running /\ \A u \in scheduled : pc[u] \in Finished

\* Thread t is executing its task function (the process is alive, t gets the
\* processor and is not inside the cleanup routine).
InTask(t) == exited = "running" /\ cpc[t] = "none" /\ Runnable(t)

(*************************** pure functions ********************************)
\* Command tables that differ from the one of task_networking: one on which
\* no token has an effect, one whose throttle steps are not clamped, one whose
\* UP step is 20, and one that takes "up" for UP.
ApplyCommandIgnored(s, c) == s

ApplyCommandNoClamp(s, c) ==
    CASE c = "UP"   -> [s EXCEPT !.throttle = @ + 10]
      [] c = "DOWN" -> [s EXCEPT !.throttle = @ - 10]
      [] OTHER      -> s

ApplyCommandDoubleStep(s, c) ==
    IF c = "UP" THEN [s EXCEPT !.throttle = Min(100, @ + 20)] ELSE s

ApplyCommandAnyCase(s, c) ==
    IF c \in {"UP", "up"} THEN [s EXCEPT !.throttle = Min(100, @ + 10)] ELSE s

\* The command table of task_networking, applied to DroneState s.
ApplyCommand(s, c) ==
    CASE c = "PANIC" -> [s EXCEPT !.emergency_triggered = TRUE]
      [] c = "UP"    -> [s EXCEPT !.throttle = Min(100, s.throttle + 10)]
      [] c = "DOWN"  -> [s EXCEPT !.throttle = Max(0, s.throttle - 10)]
      [] c = "FRONT" -> [s EXCEPT !.pitch = 15]
      [] c = "BACK"  -> [s EXCEPT !.pitch = -15]
      [] c = "LEFT"  -> [s EXCEPT !.roll = -15]
      [] c = "RIGHT" -> [s EXCEPT !.roll = 15]
      [] c = "STOP"  -> [s EXCEPT !.pitch = 0, !.roll = 0]
      [] OTHER       -> s

\* A packet count that runs backwards.
CountPacketDown(g, p) == [g EXCEPT !.net_packets = @ - 1, !.net_preempts = p]

\* task_networking, for every datagram: global_stats.net_packets++;
\* global_stats.net_preempts = preempts;
CountPacket(g, p) == [g EXCEPT !.net_packets = @ + 1, !.net_preempts = p]

\* x / 2 on a long: the quotient is truncated towards zero.
Halve(x) == IF x >= 0 THEN x \div 2 ELSE -((-x) \div 2)

\* A cycle record that keeps the sum instead of the mean.
RecordCycleSum(g, d) ==
    [g EXCEPT !.flight_loops = @ + 1, !.flight_exec_avg_us = @ + d]

\* task_flight, end of a cycle: global_stats.flight_loops++;
\* flight_exec_avg_us = (flight_exec_avg_us + dur) / 2;
RecordCycle(g, d) ==
    [g EXCEPT !.flight_loops = @ + 1, !.flight_exec_avg_us = Halve(@ + d)]

\* A deadline that is counted from the time the cycle starts.
NextDeadlineRelative(prev, t) == t + Period

\* task_flight: next_wake += std::chrono::milliseconds(10);
NextDeadline(prev, t) == prev + Period

\* task_flight: if (emergency_triggered) { throttle = pitch = roll = 0; }
CutOnEmergency(s) ==
    IF s.emergency_triggered
    THEN [s EXCEPT !.throttle = 0, !.pitch = 0, !.roll = 0]
    ELSE s

\* accel = lift * tilt_factor - gravity, in units of 1e-5 m/s^2:
\* lift = throttle * 0.25, tilt_factor = 1 - (|pitch| + |roll|) * 0.005,
\* gravity = 9.81.
Accel(s) == s.throttle * 25 * (1000 - 5 * (Abs(s.pitch) + Abs(s.roll))) - 981000

\* velocity += accel * dt   (dt = 0.01; velocity in 1e-7 m/s)
IntegrateVelocity(s) == [s EXCEPT !.velocity = @ + Accel(s)]

\* altitude += velocity * dt; if (altitude < 0) { altitude = 0; velocity = 0; }
\* A ground clamp that leaves the velocity as it is.
IntegrateAltitudeNoReset(s) ==
    LET a == s.altitude + s.velocity
    IN  [s EXCEPT !.altitude = IF a < 0 THEN 0 ELSE a]

IntegrateAltitude(s) ==
    LET a == s.altitude + s.velocity
    IN  IF a < 0 THEN [s EXCEPT !.altitude = 0, !.velocity = 0]
                 ELSE [s EXCEPT !.altitude = a]

\* A shutdown routine that clears the whole record, the flag with it.
KillMotorsReset(s) == DroneState

\* cleanup_and_exit / cleanup_resources: "Kill motors".
KillMotors(s) == [s EXCEPT !.throttle = 0, !.pitch = 0, !.roll = 0, !.yaw = 0]

\* A wait without a predicate: any wake-up gets through.
WaitNoPredicate(s) == TRUE

\* The predicate of cv_emergency.wait(l, pred).
WaitPredicate(s) == s.emergency_triggered

(******************************* Init **************************************)
Init ==
    /\ build \in Builds
    /\ scheduled \in SUBSET Tasks
    /\ sigleft \in {0, MaxSignals}
    /\ Cardinality(scheduled) =
         Min(Cardinality(Tasks), IF sigleft = 0 THEN MaxScheduled + 1 ELSE MaxScheduled)
    /\ pending = MaxCmds
    /\ pc = [t \in Threads |->
               CASE t = "flight"  -> "fl_loop"
                 [] t = "vision"  -> IF build = "final" THEN "v_loop" ELSE "vc_start"
                 [] t = "net"     -> "net_setup"
                 [] t = "emerg"   -> "em_start"
                 [] t = "monitor" -> IF build = "final" THEN "mon_loop" ELSE "mon_first_sleep"
                 [] OTHER         -> "m_join"]
    /\ cpc = [t \in Threads |-> "none"]
    /\ holds = [t \in Threads |-> {}]
    /\ shared_state = DroneState
    /\ global_stats = SystemStats
    /\ system_running = TRUE
    /\ exited = "running"
    /\ cmd = ""
    /\ vi = 0
    /\ spurious = 0
    /\ raises = 0
    /\ now = 0
    /\ next_wake = 0
    /\ delayed = 0
    /\ ups = 0
    /\ wakes = 0
    /\ priority = PriorityTable
    /\ affinity = [t \in Tasks |-> -1]
    /\ warned = {}
    /\ transport = "unset"
    /\ dur = 0
    /\ maxdur = 0

(************************** task_flight ************************************)
\* The loop test at the top of a cycle (reached at start and when
\* sleep_until(next_wake) returns): while (system_running) { next_wake += 10ms;
\* if (now > next_wake) ...   Whether the cycle starts late is the clock's choice.
FlightLoop ==
    /\ InTask("flight") /\ pc["flight"] = "fl_loop"
    /\ IF ~system_running
       THEN pc' = Goto("flight", "fl_done")
       ELSE /\ global_stats.flight_loops < MaxLoops
            /\ \E late \in BOOLEAN :
                 pc' = Goto("flight", IF late THEN "fl_miss_lock" ELSE "fl_state_lock")
    /\ UNCHANGED <<now, next_wake, delayed, ups>>
    /\ UNCHANGED <<priority, affinity, warned, transport, dur, maxdur>>
    /\ UNCHANGED <<build, scheduled, cpc, holds, shared_state, global_stats,
                   system_running, exited, cmd, vi, pending, sigleft, spurious, raises, wakes>>

FlightMissLock ==
    /\ InTask("flight") /\ pc["flight"] = "fl_miss_lock"
    /\ CanLock("flight", "stats_mutex")
    /\ holds' = Locked("flight", "stats_mutex")
    /\ pc' = Goto("flight", "fl_miss")
    /\ UNCHANGED <<now, next_wake, delayed, ups>>
    /\ UNCHANGED <<priority, affinity, warned, transport, dur, maxdur>>
    /\ UNCHANGED <<build, scheduled, cpc, shared_state, global_stats, system_running,
                   exited, cmd, vi, pending, sigleft, spurious, raises, wakes>>

\* global_stats.flight_deadline_misses++;
FlightMiss ==
    /\ InTask("flight") /\ pc["flight"] = "fl_miss"
    /\ global_stats' = [global_stats EXCEPT !.flight_deadline_misses = @ + 1]
    /\ holds' = Unlocked("flight", "stats_mutex")
    /\ pc' = Goto("flight", "fl_state_lock")
    /\ UNCHANGED <<now, next_wake, delayed, ups>>
    /\ UNCHANGED <<priority, affinity, warned, transport, dur, maxdur>>
    /\ UNCHANGED <<build, scheduled, cpc, shared_state, system_running, exited, cmd,
                   vi, pending, sigleft, spurious, raises, wakes>>

FlightStateLock ==
    /\ InTask("flight") /\ pc["flight"] = "fl_state_lock"
    /\ CanLock("flight", "state_mutex")
    /\ holds' = Locked("flight", "state_mutex")
    /\ pc' = Goto("flight", "fl_velocity")
    /\ UNCHANGED <<now, next_wake, delayed, ups>>
    /\ UNCHANGED <<priority, affinity, warned, transport, dur, maxdur>>
    /\ UNCHANGED <<build, scheduled, cpc, shared_state, global_stats, system_running,
                   exited, cmd, vi, pending, sigleft, spurious, raises, wakes>>

\* The emergency check and the integration up to velocity += accel * dt.
FlightVelocity ==
    /\ InTask("flight") /\ pc["flight"] = "fl_velocity"
    /\ shared_state' = IntegrateVelocity(CutOnEmergency(shared_state))
    /\ pc' = Goto("flight", "fl_altitude")
    /\ UNCHANGED <<now, next_wake, delayed, ups>>
    /\ UNCHANGED <<priority, affinity, warned, transport, dur, maxdur>>
    /\ UNCHANGED <<build, scheduled, cpc, holds, global_stats, system_running,
                   exited, cmd, vi, pending, sigleft, spurious, raises, wakes>>

\* altitude += velocity * dt, the ground clamp, and the end of the scope.
FlightAltitude ==
    /\ InTask("flight") /\ pc["flight"] = "fl_altitude"
    /\ shared_state' = IntegrateAltitude(shared_state)
    /\ holds' = Unlocked("flight", "state_mutex")
    /\ pc' = Goto("flight", "fl_stats_lock")
    /\ UNCHANGED <<now, next_wake, delayed, ups>>
    /\ UNCHANGED <<priority, affinity, warned, transport, dur, maxdur>>
    /\ UNCHANGED <<build, scheduled, cpc, global_stats, system_running, exited, cmd,
                   vi, pending, sigleft, spurious, raises, wakes>>

FlightStatsLock ==
    /\ InTask("flight") /\ pc["flight"] = "fl_stats_lock"
    /\ CanLock("flight", "stats_mutex")
    /\ holds' = Locked("flight", "stats_mutex")
    /\ pc' = Goto("flight", "fl_stats")
    /\ UNCHANGED <<now, next_wake, delayed, ups>>
    /\ UNCHANGED <<priority, affinity, warned, transport, dur, maxdur>>
    /\ UNCHANGED <<build, scheduled, cpc, shared_state, global_stats, system_running,
                   exited, cmd, vi, pending, sigleft, spurious, raises, wakes>>

\* global_stats.flight_loops++; then the task sleeps until next_wake.  (The
\* measured duration and its average are followed in DeadlineCycle, where
\* the task runs against the clock.)
FlightStats ==
    /\ InTask("flight") /\ pc["flight"] = "fl_stats"
    /\ global_stats' = [global_stats EXCEPT !.flight_loops = @ + 1]
    /\ holds' = Unlocked("flight", "stats_mutex")
    /\ pc' = Goto("flight", "fl_loop")
    /\ UNCHANGED <<now, next_wake, delayed, ups>>
    /\ UNCHANGED <<priority, affinity, warned, transport, dur, maxdur>>
    /\ UNCHANGED <<build, scheduled, cpc, shared_state, system_running, exited, cmd,
                   vi, pending, sigleft, spurious, raises, wakes>>

(************************** task_vision ************************************)
\* final build, outer loop test: while (system_running) { system("pkill ...");
\* sleep_for(500ms);
VisionLoop ==
    /\ InTask("vision") /\ pc["vision"] = "v_loop"
    /\ pc' = Goto("vision", IF system_running THEN "v_active_lock" ELSE "v_final_lock")
    /\ UNCHANGED <<now, next_wake, delayed, ups>>
    /\ UNCHANGED <<priority, affinity, warned, transport, dur, maxdur>>
    /\ UNCHANGED <<build, scheduled, cpc, holds, shared_state, global_stats,
                   system_running, exited, cmd, vi, pending, sigleft, spurious, raises, wakes>>

VisionActiveLock ==
    /\ InTask("vision") /\ pc["vision"] = "v_active_lock"
    /\ CanLock("vision", "stats_mutex")
    /\ holds' = Locked("vision", "stats_mutex")
    /\ pc' = Goto("vision", "v_active")
    /\ UNCHANGED <<now, next_wake, delayed, ups>>
    /\ UNCHANGED <<priority, affinity, warned, transport, dur, maxdur>>
    /\ UNCHANGED <<build, scheduled, cpc, shared_state, global_stats, system_running,
                   exited, cmd, vi, pending, sigleft, spurious, raises, wakes>>

\* global_stats.vision_active = true; then the camera is started and i = 0.
\* A vision task that writes a DroneState field in its critical section.
VisionActiveTouchesState ==
    /\ InTask("vision") /\ pc["vision"] = "v_active"
    /\ global_stats' = [global_stats EXCEPT !.vision_active = TRUE]
    /\ shared_state' = [shared_state EXCEPT !.yaw = 1]
    /\ holds' = Unlocked("vision", "stats_mutex")
    /\ vi' = 0
    /\ pc' = Goto("vision", "v_frame")
    /\ UNCHANGED <<now, next_wake, delayed, ups>>
    /\ UNCHANGED <<priority, affinity, warned, transport, dur, maxdur>>
    /\ UNCHANGED <<build, scheduled, cpc, system_running, exited, cmd,
                   pending, sigleft, spurious, raises, wakes>>

VisionActive ==
    /\ InTask("vision") /\ pc["vision"] = "v_active"
    /\ global_stats' = [global_stats EXCEPT !.vision_active = TRUE]
    /\ holds' = Unlocked("vision", "stats_mutex")
    /\ vi' = 0
    /\ pc' = Goto("vision", "v_frame")
    /\ UNCHANGED <<now, next_wake, delayed, ups>>
    /\ UNCHANGED <<priority, affinity, warned, transport, dur, maxdur>>
    /\ UNCHANGED <<build, scheduled, cpc, shared_state, system_running, exited, cmd,
                   pending, sigleft, spurious, raises, wakes>>

\* for (i = 0; i < 100; i++) { if (!system_running) break; frame_count++;
\* if (elapsed >= 1) {...} sleep_for(100ms); }   Reached at i = 0 and when the
\* sleep returns.  Whether a second has elapsed is the clock's choice.
VisionFrame ==
    /\ InTask("vision") /\ pc["vision"] = "v_frame"
    /\ IF vi >= VisionBurst \/ ~system_running
       THEN pc' = Goto("vision", "v_loop") /\ vi' = 0
       ELSE /\ vi' = vi + 1
            /\ \E elapsed \in BOOLEAN :
                 pc' = Goto("vision", IF elapsed THEN "v_fps_lock" ELSE "v_frame")
    /\ UNCHANGED <<now, next_wake, delayed, ups>>
    /\ UNCHANGED <<priority, affinity, warned, transport, dur, maxdur>>
    /\ UNCHANGED <<build, scheduled, cpc, holds, shared_state, global_stats,
                   system_running, exited, cmd, pending, sigleft, spurious, raises, wakes>>

VisionFpsLock ==
    /\ InTask("vision") /\ pc["vision"] = "v_fps_lock"
    /\ CanLock("vision", "stats_mutex")
    /\ holds' = Locked("vision", "stats_mutex")
    /\ pc' = Goto("vision", "v_fps")
    /\ UNCHANGED <<now, next_wake, delayed, ups>>
    /\ UNCHANGED <<priority, affinity, warned, transport, dur, maxdur>>
    /\ UNCHANGED <<build, scheduled, cpc, shared_state, global_stats, system_running,
                   exited, cmd, vi, pending, sigleft, spurious, raises, wakes>>

\* global_stats.vision_fps = frame_count / elapsed; (the quotient is the
\* clock's choice; the preemption sample is not kept here)
VisionFps ==
    /\ InTask("vision") /\ pc["vision"] = "v_fps"
    /\ \E fps \in FpsSamples :
         global_stats' = [global_stats EXCEPT !.vision_fps = fps]
    /\ holds' = Unlocked("vision", "stats_mutex")
    /\ pc' = Goto("vision", "v_frame")
    /\ UNCHANGED <<now, next_wake, delayed, ups>>
    /\ UNCHANGED <<priority, affinity, warned, transport, dur, maxdur>>
    /\ UNCHANGED <<build, scheduled, cpc, shared_state, system_running, exited, cmd,
                   vi, pending, sigleft, spurious, raises, wakes>>

VisionFinalLock ==
    /\ InTask("vision") /\ pc["vision"] = "v_final_lock"
    /\ CanLock("vision", "stats_mutex")
    /\ holds' = Locked("vision", "stats_mutex")
    /\ pc' = Goto("vision", "v_final")
    /\ UNCHANGED <<now, next_wake, delayed, ups>>
    /\ UNCHANGED <<priority, affinity, warned, transport, dur, maxdur>>
    /\ UNCHANGED <<build, scheduled, cpc, shared_state, global_stats, system_running,
                   exited, cmd, vi, pending, sigleft, spurious, raises, wakes>>

\* global_stats.vision_active = false; and task_vision returns.
VisionFinal ==
    /\ InTask("vision") /\ pc["vision"] = "v_final"
    /\ global_stats' = [global_stats EXCEPT !.vision_active = FALSE]
    /\ holds' = Unlocked("vision", "stats_mutex")
    /\ pc' = Goto("vision", "v_done")
    /\ UNCHANGED <<now, next_wake, delayed, ups>>
    /\ UNCHANGED <<priority, affinity, warned, transport, dur, maxdur>>
    /\ UNCHANGED <<build, scheduled, cpc, shared_state, system_running, exited, cmd,
                   vi, pending, sigleft, spurious, raises, wakes>>

\* collector build, loop test (reached after the initial sleep_for(500ms) and
\* when sleep_for(100us) returns): while (system_running) { ...encode a frame...
VisionCLoop ==
    /\ InTask("vision") /\ pc["vision"] = "vc_start"
    /\ IF ~system_running
       THEN pc' = Goto("vision", "v_done")
       ELSE /\ global_stats.vision_frames < MaxFrames
            /\ pc' = Goto("vision", "vc_lock")
    /\ UNCHANGED <<now, next_wake, delayed, ups>>
    /\ UNCHANGED <<priority, affinity, warned, transport, dur, maxdur>>
    /\ UNCHANGED <<build, scheduled, cpc, holds, shared_state, global_stats,
                   system_running, exited, cmd, vi, pending, sigleft, spurious, raises, wakes>>

VisionCLock ==
    /\ InTask("vision") /\ pc["vision"] = "vc_lock"
    /\ CanLock("vision", "stats_mutex")
    /\ holds' = Locked("vision", "stats_mutex")
    /\ pc' = Goto("vision", "vc_count")
    /\ UNCHANGED <<now, next_wake, delayed, ups>>
    /\ UNCHANGED <<priority, affinity, warned, transport, dur, maxdur>>
    /\ UNCHANGED <<build, scheduled, cpc, shared_state, global_stats, system_running,
                   exited, cmd, vi, pending, sigleft, spurious, raises, wakes>>

\* global_stats.vision_frames++; then sleep_for(100us).
VisionCCount ==
    /\ InTask("vision") /\ pc["vision"] = "vc_count"
    /\ global_stats' = [global_stats EXCEPT !.vision_frames = @ + 1]
    /\ holds' = Unlocked("vision", "stats_mutex")
    /\ pc' = Goto("vision", "vc_start")
    /\ UNCHANGED <<now, next_wake, delayed, ups>>
    /\ UNCHANGED <<priority, affinity, warned, transport, dur, maxdur>>
    /\ UNCHANGED <<build, scheduled, cpc, shared_state, system_running, exited, cmd,
                   vi, pending, sigleft, spurious, raises, wakes>>

(************************ task_networking **********************************)
\* Where task_networking goes after socket() and bind(): the final build
\* writes the error to cerr and returns when either fails; the collector
\* build does not look at their results and enters its loop.
AfterSetup(ok) == IF ok \/ build = "collector" THEN "net_loop" ELSE "net_done"

NetSetup ==
    /\ InTask("net") /\ pc["net"] = "net_setup"
    /\ \E ok \in BOOLEAN :
         /\ transport' = IF ok THEN "up" ELSE "failed"
         /\ pc' = Goto("net", AfterSetup(ok))
    /\ UNCHANGED <<now, next_wake, delayed, ups>>
    /\ UNCHANGED <<priority, affinity, warned, dur, maxdur>>
    /\ UNCHANGED <<build, scheduled, cpc, holds, shared_state, global_stats,
                   system_running, exited, cmd, vi, pending, sigleft, spurious, raises, wakes>>

\* The loop test (reached after setup and when sleep_for(10ms) returns):
\* while (system_running) { n = recvfrom(...);  A datagram, if one is there,
\* becomes the string cmd; with none the task sleeps again.  No datagram
\* reaches a socket that was not created or not bound (n <= 0 every time).
NetLoop ==
    /\ InTask("net") /\ pc["net"] = "net_loop"
    /\ IF ~system_running
       THEN /\ pc' = Goto("net", "net_done")
            /\ UNCHANGED <<cmd, pending>>
       ELSE /\ pending > 0
            /\ transport = "up"
            /\ \E c \in CoreCmds : cmd' = c
            /\ pending' = pending - 1
            /\ pc' = Goto("net", "net_stats_lock")
    /\ UNCHANGED <<now, next_wake, delayed, ups>>
    /\ UNCHANGED <<priority, affinity, warned, transport, dur, maxdur>>
    /\ UNCHANGED <<build, scheduled, cpc, holds, shared_state, global_stats,
                   system_running, exited, vi, sigleft, spurious, raises, wakes>>

NetStatsLock ==
    /\ InTask("net") /\ pc["net"] = "net_stats_lock"
    /\ CanLock("net", "stats_mutex")
    /\ holds' = Locked("net", "stats_mutex")
    /\ pc' = Goto("net", "net_stats")
    /\ UNCHANGED <<now, next_wake, delayed, ups>>
    /\ UNCHANGED <<priority, affinity, warned, transport, dur, maxdur>>
    /\ UNCHANGED <<build, scheduled, cpc, shared_state, global_stats, system_running,
                   exited, cmd, vi, pending, sigleft, spurious, raises, wakes>>

\* global_stats.net_packets++; global_stats.net_preempts = preempts; where
\* preempts is the thread's involuntary context switch count, which never
\* goes down.
NetStats ==
    /\ InTask("net") /\ pc["net"] = "net_stats"
    /\ \E p \in PreemptSamples :
         /\ p >= global_stats.net_preempts
         /\ global_stats' = CountPacket(global_stats, p)
    /\ holds' = Unlocked("net", "stats_mutex")
    /\ pc' = Goto("net", "net_state_lock")
    /\ UNCHANGED <<now, next_wake, delayed, ups>>
    /\ UNCHANGED <<priority, affinity, warned, transport, dur, maxdur>>
    /\ UNCHANGED <<build, scheduled, cpc, shared_state, system_running, exited, cmd,
                   vi, pending, sigleft, spurious, raises, wakes>>

NetStateLock ==
    /\ InTask("net") /\ pc["net"] = "net_state_lock"
    /\ CanLock("net", "state_mutex")
    /\ holds' = Locked("net", "state_mutex")
    /\ pc' = Goto("net", "net_apply")
    /\ UNCHANGED <<now, next_wake, delayed, ups>>
    /\ UNCHANGED <<priority, affinity, warned, transport, dur, maxdur>>
    /\ UNCHANGED <<build, scheduled, cpc, shared_state, global_stats, system_running,
                   exited, cmd, vi, pending, sigleft, spurious, raises, wakes>>

\* A notification that reaches nobody.
NotifiedNobody(p) == p

\* cv_emergency.notify_one(): a thread blocked in the wait is made runnable.
Notified(p) == IF p["emerg"] = "em_wait" THEN [p EXCEPT !["emerg"] = "em_relock"] ELSE p

\* The if / else-if chain on cmd.  PANIC sets the flag and notifies, then goes
\* on to lock stats_mutex with state_mutex still held; every other token ends
\* the block, which releases state_mutex, and the task sleeps.
NetApply ==
    /\ InTask("net") /\ pc["net"] = "net_apply"
    /\ shared_state' = ApplyCommand(shared_state, cmd)
    /\ IF cmd = "PANIC"
       THEN /\ pc' = [Notified(pc) EXCEPT !["net"] = "net_panic_lock"]
            /\ raises' = raises + 1
            /\ UNCHANGED <<holds, cmd>>
       ELSE /\ pc' = Goto("net", "net_loop")
            /\ holds' = Unlocked("net", "state_mutex")
            /\ cmd' = ""
            /\ UNCHANGED raises
    /\ UNCHANGED <<now, next_wake, delayed, ups>>
    /\ UNCHANGED <<priority, affinity, warned, transport, dur, maxdur>>
    /\ UNCHANGED <<build, scheduled, cpc, global_stats, system_running, exited, vi,
                   pending, sigleft, spurious, wakes>>

NetPanicLock ==
    /\ InTask("net") /\ pc["net"] = "net_panic_lock"
    /\ CanLock("net", "stats_mutex")
    /\ holds' = Locked("net", "stats_mutex")
    /\ pc' = Goto("net", "net_panic_status")
    /\ UNCHANGED <<now, next_wake, delayed, ups>>
    /\ UNCHANGED <<priority, affinity, warned, transport, dur, maxdur>>
    /\ UNCHANGED <<build, scheduled, cpc, shared_state, global_stats, system_running,
                   exited, cmd, vi, pending, sigleft, spurious, raises, wakes>>

\* global_stats.emergency_status = "TRIGGERED"; then both guards go out of
\* scope and the task sleeps.
NetPanicStatus ==
    /\ InTask("net") /\ pc["net"] = "net_panic_status"
    /\ global_stats' = [global_stats EXCEPT !.emergency_status = "TRIGGERED"]
    /\ holds' = [holds EXCEPT !["net"] = {}]
    /\ cmd' = ""
    /\ pc' = Goto("net", "net_loop")
    /\ UNCHANGED <<now, next_wake, delayed, ups>>
    /\ UNCHANGED <<priority, affinity, warned, transport, dur, maxdur>>
    /\ UNCHANGED <<build, scheduled, cpc, shared_state, system_running, exited, vi,
                   pending, sigleft, spurious, raises, wakes>>

(************************* task_emergency **********************************)
\* cv_emergency.wait(l, pred) with l held: if the predicate is false the lock
\* is released and the thread blocks, else it goes on with the lock held.
AfterPredicate(t) ==
    IF WaitPredicate(shared_state)
    THEN /\ pc' = Goto(t, "em_stats_lock")
         /\ holds' = Locked(t, "state_mutex")
         /\ wakes' = wakes + 1
    ELSE /\ pc' = Goto(t, "em_wait")
         /\ UNCHANGED <<holds, wakes>>

\* A wait that blocks before it has looked at the flag.
EmStartBlind ==
    /\ InTask("emerg") /\ pc["emerg"] = "em_start"
    /\ CanLock("emerg", "state_mutex")
    /\ pc' = Goto("emerg", "em_wait")
    /\ UNCHANGED <<now, next_wake, delayed, ups>>
    /\ UNCHANGED <<priority, affinity, warned, transport, dur, maxdur>>
    /\ UNCHANGED <<build, scheduled, cpc, holds, shared_state, global_stats,
                   system_running, exited, cmd, vi, pending, sigleft, spurious, raises,
                   wakes>>

\* std::unique_lock<std::mutex> l(shared_state.state_mutex); and the first
\* test of the predicate.
EmStart ==
    /\ InTask("emerg") /\ pc["emerg"] = "em_start"
    /\ CanLock("emerg", "state_mutex")
    /\ AfterPredicate("emerg")
    /\ UNCHANGED <<now, next_wake, delayed, ups>>
    /\ UNCHANGED <<priority, affinity, warned, transport, dur, maxdur>>
    /\ UNCHANGED <<build, scheduled, cpc, shared_state, global_stats, system_running,
                   exited, cmd, vi, pending, sigleft, spurious, raises>>

\* A spurious wake-up of the condition variable.
EmSpurious ==
    /\ InTask("emerg") /\ pc["emerg"] = "em_wait"
    /\ spurious < MaxSpurious
    /\ spurious' = spurious + 1
    /\ pc' = Goto("emerg", "em_relock")
    /\ UNCHANGED <<now, next_wake, delayed, ups>>
    /\ UNCHANGED <<priority, affinity, warned, transport, dur, maxdur>>
    /\ UNCHANGED <<build, scheduled, cpc, holds, shared_state, global_stats,
                   system_running, exited, cmd, vi, pending, sigleft, raises, wakes>>

\* The woken waiter takes the lock again and tests the predicate.
EmRelock ==
    /\ InTask("emerg") /\ pc["emerg"] = "em_relock"
    /\ CanLock("emerg", "state_mutex")
    /\ AfterPredicate("emerg")
    /\ UNCHANGED <<now, next_wake, delayed, ups>>
    /\ UNCHANGED <<priority, affinity, warned, transport, dur, maxdur>>
    /\ UNCHANGED <<build, scheduled, cpc, shared_state, global_stats, system_running,
                   exited, cmd, vi, pending, sigleft, spurious, raises>>

\* std::lock_guard<std::mutex> sl(global_stats.stats_mutex); l is still held.
EmStatsLock ==
    /\ InTask("emerg") /\ pc["emerg"] = "em_stats_lock"
    /\ CanLock("emerg", "stats_mutex")
    /\ holds' = Locked("emerg", "stats_mutex")
    /\ pc' = Goto("emerg", "em_active")
    /\ UNCHANGED <<now, next_wake, delayed, ups>>
    /\ UNCHANGED <<priority, affinity, warned, transport, dur, maxdur>>
    /\ UNCHANGED <<build, scheduled, cpc, shared_state, global_stats, system_running,
                   exited, cmd, vi, pending, sigleft, spurious, raises, wakes>>

\* global_stats.emergency_status = "ACTIVE"; sl goes out of scope, l does not.
\* The collector build then writes shared_state.throttle = 0.  Then the grace
\* delay: sleep_for(2s) (final), sleep_for(1s) (collector).
EmActive ==
    /\ InTask("emerg") /\ pc["emerg"] = "em_active"
    /\ global_stats' = [global_stats EXCEPT !.emergency_status = "ACTIVE"]
    /\ holds' = Unlocked("emerg", "stats_mutex")
    /\ shared_state' = IF build = "collector"
                        THEN [shared_state EXCEPT !.throttle = 0]
                        ELSE shared_state
    /\ pc' = Goto("emerg", "em_sleep")
    /\ UNCHANGED <<now, next_wake, delayed, ups>>
    /\ UNCHANGED <<priority, affinity, warned, transport, dur, maxdur>>
    /\ UNCHANGED <<build, scheduled, cpc, system_running, exited, cmd, vi, pending,
                   sigleft, spurious, raises, wakes>>

\* final build: the sleep returns and cleanup_and_exit() is called with l
\* held; its first statement is system_running = false.
EmGraceEndFinal ==
    /\ InTask("emerg") /\ pc["emerg"] = "em_sleep"
    /\ build = "final"
    /\ system_running' = FALSE
    /\ pc' = Goto("emerg", "em_cleanup")
    /\ cpc' = [cpc EXCEPT !["emerg"] = "c_lock_state"]
    /\ UNCHANGED <<now, next_wake, delayed, ups>>
    /\ UNCHANGED <<priority, affinity, warned, transport, dur, maxdur>>
    /\ UNCHANGED <<build, scheduled, holds, shared_state, global_stats, exited, cmd,
                   vi, pending, sigleft, spurious, raises, wakes>>

\* collector build: the sleep returns; system_running = false; the task
\* returns, which releases l.
EmGraceEndCollector ==
    /\ InTask("emerg") /\ pc["emerg"] = "em_sleep"
    /\ build = "collector"
    /\ system_running' = FALSE
    /\ holds' = Unlocked("emerg", "state_mutex")
    /\ pc' = Goto("emerg", "em_done")
    /\ UNCHANGED <<now, next_wake, delayed, ups>>
    /\ UNCHANGED <<priority, affinity, warned, transport, dur, maxdur>>
    /\ UNCHANGED <<build, scheduled, cpc, shared_state, global_stats, exited, cmd,
                   vi, pending, sigleft, spurious, raises, wakes>>

(************************** task_monitor ***********************************)
\* collector build: the sleep_for(1s) before the table header returns.
MonFirstWake ==
    /\ InTask("monitor") /\ pc["monitor"] = "mon_first_sleep"
    /\ pc' = Goto("monitor", "mon_loop")
    /\ UNCHANGED <<now, next_wake, delayed, ups>>
    /\ UNCHANGED <<priority, affinity, warned, transport, dur, maxdur>>
    /\ UNCHANGED <<build, scheduled, cpc, holds, shared_state, global_stats,
                   system_running, exited, cmd, vi, pending, sigleft, spurious, raises, wakes>>

\* while (system_running) { sleep_for(1s); ... the sleep returns.
MonLoop ==
    /\ InTask("monitor") /\ pc["monitor"] = "mon_loop"
    /\ pc' = Goto("monitor", IF system_running THEN "mon_stats_lock" ELSE "mon_done")
    /\ UNCHANGED <<now, next_wake, delayed, ups>>
    /\ UNCHANGED <<priority, affinity, warned, transport, dur, maxdur>>
    /\ UNCHANGED <<build, scheduled, cpc, holds, shared_state, global_stats,
                   system_running, exited, cmd, vi, pending, sigleft, spurious, raises, wakes>>

MonStatsLock ==
    /\ InTask("monitor") /\ pc["monitor"] = "mon_stats_lock"
    /\ CanLock("monitor", "stats_mutex")
    /\ holds' = Locked("monitor", "stats_mutex")
    /\ pc' = Goto("monitor", "mon_stats")
    /\ UNCHANGED <<now, next_wake, delayed, ups>>
    /\ UNCHANGED <<priority, affinity, warned, transport, dur, maxdur>>
    /\ UNCHANGED <<build, scheduled, cpc, shared_state, global_stats, system_running,
                   exited, cmd, vi, pending, sigleft, spurious, raises, wakes>>

\* A monitor that clears the whole record after copying it.
MonitorResetAll(g) == SystemStats

\* The counters the monitor zeroes after copying them.
MonitorReset(g) ==
    IF build = "final"
    THEN [g EXCEPT !.net_packets = 0]
    ELSE [g EXCEPT !.vision_frames = 0, !.net_packets = 0]

\* A monitor that keeps stats_mutex after its snapshot.
MonStatsKeepLock ==
    /\ InTask("monitor") /\ pc["monitor"] = "mon_stats"
    /\ global_stats' = MonitorReset(global_stats)
    /\ pc' = Goto("monitor", IF build = "final" THEN "mon_state_lock" ELSE "mon_loop")
    /\ UNCHANGED <<now, next_wake, delayed, ups>>
    /\ UNCHANGED <<priority, affinity, warned, transport, dur, maxdur>>
    /\ UNCHANGED <<build, scheduled, cpc, holds, shared_state, system_running, exited,
                   cmd, vi, pending, sigleft, spurious, raises, wakes>>

\* Snapshot of the stats and reset of the rate counters.  The final build goes
\* on to read DroneState; the collector build prints and loops.
MonStats ==
    /\ InTask("monitor") /\ pc["monitor"] = "mon_stats"
    /\ global_stats' = MonitorReset(global_stats)
    /\ holds' = Unlocked("monitor", "stats_mutex")
    /\ pc' = Goto("monitor", IF build = "final" THEN "mon_state_lock" ELSE "mon_loop")
    /\ UNCHANGED <<now, next_wake, delayed, ups>>
    /\ UNCHANGED <<priority, affinity, warned, transport, dur, maxdur>>
    /\ UNCHANGED <<build, scheduled, cpc, shared_state, system_running, exited, cmd,
                   vi, pending, sigleft, spurious, raises, wakes>>

MonStateLock ==
    /\ InTask("monitor") /\ pc["monitor"] = "mon_state_lock"
    /\ CanLock("monitor", "state_mutex")
    /\ holds' = Locked("monitor", "state_mutex")
    /\ pc' = Goto("monitor", "mon_state")
    /\ UNCHANGED <<now, next_wake, delayed, ups>>
    /\ UNCHANGED <<priority, affinity, warned, transport, dur, maxdur>>
    /\ UNCHANGED <<build, scheduled, cpc, shared_state, global_stats, system_running,
                   exited, cmd, vi, pending, sigleft, spurious, raises, wakes>>

\* alt = shared_state.altitude; thr = shared_state.throttle; then the line is printed.
MonState ==
    /\ InTask("monitor") /\ pc["monitor"] = "mon_state"
    /\ holds' = Unlocked("monitor", "state_mutex")
    /\ pc' = Goto("monitor", "mon_loop")
    /\ UNCHANGED <<now, next_wake, delayed, ups>>
    /\ UNCHANGED <<priority, affinity, warned, transport, dur, maxdur>>
    /\ UNCHANGED <<build, scheduled, cpc, shared_state, global_stats, system_running,
                   exited, cmd, vi, pending, sigleft, spurious, raises, wakes>>

(******************* cleanup_and_exit / cleanup_resources ******************)
\* The mutex the cleanup routine is about to lock at position c.
CleanupLock(c) == IF c = "c_lock_state" THEN "state_mutex" ELSE "stats_mutex"

\* std::lock_guard l(shared_state.state_mutex) by a thread that does not own it.
CleanupLockState(t) ==
    /\ exited = "running" /\ cpc[t] = "c_lock_state"
    /\ "state_mutex" \notin holds[t]
    /\ CanLock(t, "state_mutex")
    /\ holds' = Locked(t, "state_mutex")
    /\ cpc' = [cpc EXCEPT ![t] = "c_motors"]
    /\ UNCHANGED <<now, next_wake, delayed, ups>>
    /\ UNCHANGED <<priority, affinity, warned, transport, dur, maxdur>>
    /\ UNCHANGED <<build, scheduled, pc, shared_state, global_stats, system_running,
                   exited, cmd, vi, pending, sigleft, spurious, raises, wakes>>

\* std::lock_guard on a mutex the calling thread already owns: undefined
\* behaviour of std::mutex::lock.  The thread blocks for ever on itself, or
\* lock() throws and the uncaught exception terminates the process.
CleanupRelock(t) ==
    /\ exited = "running" /\ cpc[t] \in {"c_lock_state", "c_lock_stats"}
    /\ CleanupLock(cpc[t]) \in holds[t]
    /\ \/ cpc' = [cpc EXCEPT ![t] = "c_deadlocked"] /\ UNCHANGED exited
       \/ cpc' = [cpc EXCEPT ![t] = "c_terminate"] /\ exited' = "abort"
    /\ UNCHANGED <<now, next_wake, delayed, ups>>
    /\ UNCHANGED <<priority, affinity, warned, transport, dur, maxdur>>
    /\ UNCHANGED <<build, scheduled, pc, holds, shared_state, global_stats,
                   system_running, cmd, vi, pending, sigleft, spurious, raises, wakes>>

\* "Kill motors": throttle = pitch = roll = yaw = 0 under state_mutex.
CleanupMotors(t) ==
    /\ exited = "running" /\ cpc[t] = "c_motors"
    /\ shared_state' = KillMotors(shared_state)
    /\ holds' = Unlocked(t, "state_mutex")
    /\ cpc' = [cpc EXCEPT ![t] = "c_lock_stats"]
    /\ UNCHANGED <<now, next_wake, delayed, ups>>
    /\ UNCHANGED <<priority, affinity, warned, transport, dur, maxdur>>
    /\ UNCHANGED <<build, scheduled, pc, global_stats, system_running, exited, cmd,
                   vi, pending, sigleft, spurious, raises, wakes>>

\* The final stats are printed under stats_mutex (by a thread that does not
\* own it), the guard goes out of scope, and the process ends with status 0:
\* std::exit(0) (final build), return 0 from main (collector build).
CleanupExit(t) ==
    /\ exited = "running" /\ cpc[t] = "c_lock_stats"
    /\ "stats_mutex" \notin holds[t]
    /\ CanLock(t, "stats_mutex")
    /\ exited' = "exit0"
    /\ UNCHANGED <<now, next_wake, delayed, ups>>
    /\ UNCHANGED <<priority, affinity, warned, transport, dur, maxdur>>
    /\ UNCHANGED <<build, scheduled, pc, cpc, holds, shared_state, global_stats,
                   system_running, cmd, vi, pending, sigleft, spurious, raises, wakes>>

(*************************** signals and main *******************************)
\* final build: SIGINT / SIGTERM is handled on thread t, whatever t is doing;
\* signal_handler calls cleanup_and_exit(), whose first statement is
\* system_running = false.
SignalFinal(t) ==
    /\ exited = "running" /\ build = "final"
    /\ sigleft > 0
    /\ t \in scheduled \cup {"main"}
    /\ cpc[t] = "none" /\ pc[t] \notin Finished
    /\ sigleft' = sigleft - 1
    /\ system_running' = FALSE
    /\ cpc' = [cpc EXCEPT ![t] = "c_lock_state"]
    /\ UNCHANGED <<now, next_wake, delayed, ups>>
    /\ UNCHANGED <<priority, affinity, warned, transport, dur, maxdur>>
    /\ UNCHANGED <<build, scheduled, pc, holds, shared_state, global_stats, exited,
                   cmd, vi, pending, spurious, raises, wakes>>

\* collector build: signal_handler is { system_running = false; }
SignalCollector ==
    /\ exited = "running" /\ build = "collector"
    /\ sigleft > 0
    /\ sigleft' = sigleft - 1
    /\ system_running' = FALSE
    /\ UNCHANGED <<now, next_wake, delayed, ups>>
    /\ UNCHANGED <<priority, affinity, warned, transport, dur, maxdur>>
    /\ UNCHANGED <<build, scheduled, pc, cpc, holds, shared_state, global_stats,
                   exited, cmd, vi, pending, spurious, raises, wakes>>

\* main between the creation of the threads and the joins: the four
\* set_priority calls in the order of the source, then the pinning.
PrioPcs == {"m_prio_emerg", "m_prio_flight", "m_prio_net", "m_prio_vision"}

PrioTask(p) ==
    CASE p = "m_prio_emerg"  -> "emerg"
      [] p = "m_prio_flight" -> "flight"
      [] p = "m_prio_net"    -> "net"
      [] OTHER               -> "vision"

PrioAfter(p) ==
    CASE p = "m_prio_emerg"  -> "m_prio_flight"
      [] p = "m_prio_flight" -> "m_prio_net"
      [] p = "m_prio_net"    -> "m_prio_vision"
      [] OTHER               -> "m_pin"

\* A set_priority whose failure stops the system.
MainSetPriorityFatal ==
    /\ InTask("main") /\ pc["main"] \in PrioPcs
    /\ \E ok \in BOOLEAN :
         LET t == PrioTask(pc["main"])
         IN  /\ priority' = IF ok THEN [priority EXCEPT ![t] = PriorityTable[t]]
                                  ELSE priority
             /\ warned' = IF ok THEN warned ELSE warned \cup {t}
             /\ system_running' = ok /\ system_running
    /\ pc' = Goto("main", PrioAfter(pc["main"]))
    /\ UNCHANGED <<now, next_wake, delayed, ups>>
    /\ UNCHANGED <<affinity, transport, dur, maxdur>>
    /\ UNCHANGED <<build, scheduled, cpc, holds, shared_state, global_stats,
                   exited, cmd, vi, pending, sigleft, spurious, raises, wakes>>

\* set_priority(th, prio, name): pthread_setschedparam(th, SCHED_FIFO, prio);
\* when the call fails, "[Scheduler] FAILED name" goes to cerr and the thread
\* keeps the policy it has.
MainSetPriority ==
    /\ InTask("main") /\ pc["main"] \in PrioPcs
    /\ \E ok \in BOOLEAN :
         LET t == PrioTask(pc["main"])
         IN  /\ priority' = IF ok THEN [priority EXCEPT ![t] = PriorityTable[t]]
                                  ELSE priority
             /\ warned' = IF ok THEN warned ELSE warned \cup {t}
    /\ pc' = Goto("main", PrioAfter(pc["main"]))
    /\ UNCHANGED <<now, next_wake, delayed, ups>>
    /\ UNCHANGED <<affinity, transport, dur, maxdur>>
    /\ UNCHANGED <<build, scheduled, cpc, holds, shared_state, global_stats,
                   system_running, exited, cmd, vi, pending, sigleft, spurious, raises,
                   wakes>>

\* if (target_core != -1) { pin_thread(t1, target_core); ... pin_thread(t4,
\* target_core); }   (the result of pthread_setaffinity_np is not looked at)
MainPin ==
    /\ InTask("main") /\ pc["main"] = "m_pin"
    /\ \E target_core \in Cores :
         affinity' = IF target_core = -1
                     THEN affinity
                     ELSE [t \in Tasks |->
                             IF t \in Prioritized THEN target_core ELSE affinity[t]]
    /\ pc' = Goto("main", "m_join")
    /\ UNCHANGED <<now, next_wake, delayed, ups>>
    /\ UNCHANGED <<priority, warned, transport, dur, maxdur>>
    /\ UNCHANGED <<build, scheduled, cpc, holds, shared_state, global_stats,
                   system_running, exited, cmd, vi, pending, sigleft, spurious, raises,
                   wakes>>

\* main: t1.join(); ... t5.join(); then return 0 (final build) or
\* cleanup_resources(); return 0 (collector build).
MainJoin ==
    /\ InTask("main") /\ pc["main"] = "m_join"
    /\ \A t \in Tasks : pc[t] \in Finished
    /\ IF build = "final"
       THEN exited' = "exit0" /\ UNCHANGED <<pc, cpc>>
       ELSE /\ pc' = Goto("main", "m_cleanup")
            /\ cpc' = [cpc EXCEPT !["main"] = "c_lock_state"]
            /\ UNCHANGED exited
    /\ UNCHANGED <<now, next_wake, delayed, ups>>
    /\ UNCHANGED <<priority, affinity, warned, transport, dur, maxdur>>
    /\ UNCHANGED <<build, scheduled, holds, shared_state, global_stats,
                   system_running, cmd, vi, pending, sigleft, spurious, raises, wakes>>

(***************************** specification *******************************)
Flight ==
    \/ FlightLoop \/ FlightMissLock \/ FlightMiss \/ FlightStateLock
    \/ FlightVelocity \/ FlightAltitude \/ FlightStatsLock \/ FlightStats

Vision ==
    \/ VisionLoop \/ VisionActiveLock \/ VisionActive \/ VisionFrame
    \/ VisionFpsLock \/ VisionFps \/ VisionFinalLock \/ VisionFinal
    \/ VisionCLoop \/ VisionCLock \/ VisionCCount

Networking ==
    \/ NetSetup \/ NetLoop \/ NetStatsLock \/ NetStats \/ NetStateLock
    \/ NetApply \/ NetPanicLock \/ NetPanicStatus

Emergency ==
    \/ EmStart \/ EmSpurious \/ EmRelock \/ EmStatsLock \/ EmActive
    \/ EmGraceEndFinal \/ EmGraceEndCollector

Monitor ==
    \/ MonFirstWake \/ MonLoop \/ MonStatsLock \/ MonStats
    \/ MonStateLock \/ MonState

Cleanup ==
    \E t \in Threads :
        \/ CleanupLockState(t) \/ CleanupRelock(t)
        \/ CleanupMotors(t) \/ CleanupExit(t)

Signal == SignalCollector \/ \E t \in Threads : SignalFinal(t)

Next == Flight \/ Vision \/ Networking \/ Emergency \/ Monitor \/ Cleanup
        \/ Signal \/ MainJoin

Spec == Init /\ [][Next]_vars

(************************ runs under fair scheduling ************************)
\* Runs in which no termination signal arrives and the networking and
\* emergency tasks are among the scheduled ones.
LiveInit == Init /\ sigleft = 0 /\ {"net", "emerg"} \subseteq scheduled

LiveNext ==
    Flight \/ Vision \/ Networking \/ Emergency \/ Monitor \/ Cleanup \/ MainJoin

\* The steps by which task_emergency gets on (a spurious wake-up is not one).
EmergencyProgress ==
    \/ EmStart \/ EmRelock \/ EmStatsLock \/ EmActive
    \/ EmGraceEndFinal \/ EmGraceEndCollector

\* Every thread that can run does run in the end, and a thread that waits
\* for a mutex gets it when the mutex is free again and again (strong
\* fairness): the tasks that compete for a mutex hold it for a few statements
\* and then sleep for milliseconds, and set_priority gives task_emergency
\* SCHED_FIFO priority 90, above every other task.
LiveSpec ==
    /\ LiveInit /\ [][LiveNext]_vars
    /\ SF_vars(Flight) /\ SF_vars(Vision) /\ SF_vars(Networking)
    /\ SF_vars(Monitor) /\ SF_vars(Cleanup) /\ WF_vars(MainJoin)
    /\ SF_vars(EmergencyProgress)

(******************* the command table, applied in sequence *****************)
\* The critical sections that write the actuation fields, applied one after
\* another by a single thread to the state left by the one before: the
\* handling of one datagram by task_networking, the emergency cut of
\* task_flight, and "Kill motors" of the shutdown routine.
CommandInit ==
    /\ build = "final"
    /\ scheduled = {"net"}
    /\ sigleft = 0
    /\ pending = MaxTokens
    /\ pc = [t \in Threads |-> "net_loop"]
    /\ cpc = [t \in Threads |-> "none"]
    /\ holds = [t \in Threads |-> {}]
    /\ shared_state = DroneState
    /\ global_stats = SystemStats
    /\ system_running = TRUE
    /\ exited = "running"
    /\ cmd = ""
    /\ vi = 0
    /\ spurious = 0
    /\ raises = 0
    /\ wakes = 0
    /\ now = 0
    /\ next_wake = 0
    /\ delayed = 0
    /\ ups = 0
    /\ priority = PriorityTable
    /\ affinity = [t \in Tasks |-> -1]
    /\ warned = {}
    /\ transport = "up"
    /\ dur = 0
    /\ maxdur = 0

\* global_stats.emergency_status = "TRIGGERED" when the token is PANIC.
PanicStatus(g, c) ==
    IF c = "PANIC" THEN [g EXCEPT !.emergency_status = "TRIGGERED"] ELSE g

\* if (n > 0) { cmd = buffer; count the packet; apply the command table }
ApplyToken ==
    /\ pending > 0
    /\ \E c \in Tokens, p \in PreemptSamples :
         /\ p >= global_stats.net_preempts
         /\ cmd' = c
         /\ global_stats' = PanicStatus(CountPacket(global_stats, p), c)
         /\ shared_state' = ApplyCommand(shared_state, c)
         /\ raises' = IF c = "PANIC" THEN raises + 1 ELSE raises
         /\ ups' = IF c = "UP" /\ ups >= 0 THEN ups + 1 ELSE -1
    /\ pending' = pending - 1
    /\ UNCHANGED <<build, scheduled, pc, cpc, holds, system_running, exited, vi,
                   sigleft, spurious, wakes, now, next_wake, delayed>>
    /\ UNCHANGED <<priority, affinity, warned, transport, dur, maxdur>>

\* task_flight's emergency cut.
ApplyCut ==
    /\ shared_state' = CutOnEmergency(shared_state)
    /\ shared_state' # shared_state
    /\ ups' = -1
    /\ UNCHANGED <<build, scheduled, pc, cpc, holds, global_stats, system_running,
                   exited, cmd, vi, pending, sigleft, spurious, raises, wakes, now,
                   next_wake, delayed>>
    /\ UNCHANGED <<priority, affinity, warned, transport, dur, maxdur>>

\* "Kill motors" of the shutdown routine.
ApplyKill ==
    /\ shared_state' = KillMotors(shared_state)
    /\ shared_state' # shared_state
    /\ ups' = -1
    /\ UNCHANGED <<build, scheduled, pc, cpc, holds, global_stats, system_running,
                   exited, cmd, vi, pending, sigleft, spurious, raises, wakes, now,
                   next_wake, delayed>>
    /\ UNCHANGED <<priority, affinity, warned, transport, dur, maxdur>>

CommandNext == ApplyToken \/ ApplyCut \/ ApplyKill

CommandSpec == CommandInit /\ [][CommandNext]_vars

(********************* task_flight against the clock ***********************)
\* task_flight alone, with the clock in integer milliseconds: now is the time
\* at which the thread stands at the loop test.  auto next_wake = now().
DeadlineInit ==
    /\ build = "final"
    /\ scheduled = {"flight"}
    /\ sigleft = 0
    /\ pending = 0
    /\ pc = [t \in Threads |-> "fl_loop"]
    /\ cpc = [t \in Threads |-> "none"]
    /\ holds = [t \in Threads |-> {}]
    /\ shared_state = DroneState
    /\ global_stats = SystemStats
    /\ system_running = TRUE
    /\ exited = "running"
    /\ cmd = ""
    /\ vi = 0
    /\ spurious = 0
    /\ raises = 0
    /\ wakes = 0
    /\ now = 0
    /\ next_wake = 0
    /\ delayed = 0
    /\ ups = 0
    /\ priority = PriorityTable
    /\ affinity = [t \in Tasks |-> -1]
    /\ warned = {}
    /\ transport = "unset"
    /\ dur = 0
    /\ maxdur = 0

\* A test that counts a miss in every cycle.
CountMissAlways(g, t, deadline) == [g EXCEPT !.flight_deadline_misses = @ + 1]

\* if (steady_clock::now() > next_wake) flight_deadline_misses++;
CountMiss(g, t, deadline) ==
    IF t > deadline THEN [g EXCEPT !.flight_deadline_misses = @ + 1] ELSE g

\* One pass of the loop body: next_wake += 10ms; the deadline test; the
\* integration step, which takes w ms, and in a delayed cycle d ms more;
\* flight_loops++; sleep_until(next_wake), which returns at once when
\* next_wake is already past.
DeadlineCycle ==
    /\ system_running
    /\ global_stats.flight_loops < MaxCycles
    /\ \E w \in WorkTimes, d \in {0} \cup Delays, u \in DurSamples :
         /\ next_wake' = NextDeadline(next_wake, now)
         /\ global_stats' =
               RecordCycle(CountMiss(global_stats, now, NextDeadline(next_wake, now)), u)
         /\ dur' = u
         /\ maxdur' = Max(maxdur, u)
         /\ shared_state' =
               IntegrateAltitude(IntegrateVelocity(CutOnEmergency(shared_state)))
         /\ delayed' = IF d > 0 THEN delayed + 1 ELSE delayed
         /\ now' = Max(now + w + d, NextDeadline(next_wake, now))
    /\ UNCHANGED <<build, scheduled, pc, cpc, holds, system_running, exited, cmd, vi,
                   pending, sigleft, spurious, raises, wakes, ups>>
    /\ UNCHANGED <<priority, affinity, warned, transport>>

DeadlineNext == DeadlineCycle

DeadlineSpec == DeadlineInit /\ [][DeadlineNext]_vars

(************************ the integration step ***************************)
\* The inputs of the physics specification: states task_flight can find when
\* it takes state_mutex (altitude in 1e-9 m, velocity in 1e-7 m/s).
ThrottleLevels == {0, 50, 100}
Tilts == {-15, 0, 15}
Altitudes == {0, 500000, 5000000}
Velocities == {-2000000, 0, 2000000}

PhysInit ==
    /\ build = "final"
    /\ scheduled = {"flight", "net"}
    /\ sigleft = 0
    /\ pending = MaxInputs
    /\ pc = [t \in Threads |-> "fl_loop"]
    /\ cpc = [t \in Threads |-> "none"]
    /\ holds = [t \in Threads |-> {}]
    /\ \E th \in ThrottleLevels, p \in Tilts, r \in Tilts, a \in Altitudes,
          v \in Velocities, e \in BOOLEAN :
         shared_state = [DroneState EXCEPT !.throttle = th, !.pitch = p, !.roll = r,
                            !.altitude = a, !.velocity = v, !.emergency_triggered = e]
    /\ global_stats = SystemStats
    /\ system_running = TRUE
    /\ exited = "running"
    /\ cmd = ""
    /\ vi = 0
    /\ spurious = 0
    /\ raises = 0
    /\ wakes = 0
    /\ now = 0
    /\ next_wake = 0
    /\ delayed = 0
    /\ ups = 0
    /\ priority = PriorityTable
    /\ affinity = [t \in Tasks |-> -1]
    /\ warned = {}
    /\ transport = "unset"
    /\ dur = 0
    /\ maxdur = 0

\* The altitude the step computes before the ground test.
RawAltitude(s) == s.altitude + IntegrateVelocity(CutOnEmergency(s)).velocity

\* task_flight's critical section on DroneState, from lock to unlock.
PhysStep ==
    /\ global_stats.flight_loops < MaxSteps
    /\ shared_state' = IntegrateAltitude(IntegrateVelocity(CutOnEmergency(shared_state)))
    /\ global_stats' = [global_stats EXCEPT !.flight_loops = @ + 1]
    /\ UNCHANGED <<build, scheduled, pc, cpc, holds, system_running, exited, cmd, vi,
                   pending, sigleft, spurious, raises, wakes, now, next_wake, delayed,
                   ups>>
    /\ UNCHANGED <<priority, affinity, warned, transport, dur, maxdur>>

\* task_networking's critical section on DroneState for one recognised token.
PhysInput ==
    /\ pending > 0
    /\ \E c \in Recognized :
         /\ cmd' = c
         /\ shared_state' = ApplyCommand(shared_state, c)
    /\ pending' = pending - 1
    /\ UNCHANGED <<build, scheduled, pc, cpc, holds, global_stats, system_running,
                   exited, vi, sigleft, spurious, raises, wakes, now, next_wake,
                   delayed, ups>>
    /\ UNCHANGED <<priority, affinity, warned, transport, dur, maxdur>>

PhysNext == PhysStep \/ PhysInput

PhysSpec == PhysInit /\ [][PhysNext]_vars

(************************** main's start-up ********************************)
\* The program from the creation of the five threads: main makes its
\* set_priority and pin_thread calls while the tasks already run.  No
\* datagram and no signal arrives; MaxScheduled of the tasks get the
\* processor while main is at work.
StartInit ==
    /\ build \in Builds
    /\ scheduled \in SUBSET Tasks
    /\ Cardinality(scheduled) = Min(Cardinality(Tasks), MaxScheduled)
    /\ sigleft = 0
    /\ pending = 0
    /\ pc = [t \in Threads |->
               CASE t = "flight"  -> "fl_loop"
                 [] t = "vision"  -> IF build = "final" THEN "v_loop" ELSE "vc_start"
                 [] t = "net"     -> "net_setup"
                 [] t = "emerg"   -> "em_start"
                 [] t = "monitor" -> IF build = "final" THEN "mon_loop" ELSE "mon_first_sleep"
                 [] OTHER         -> "m_prio_emerg"]
    /\ cpc = [t \in Threads |-> "none"]
    /\ holds = [t \in Threads |-> {}]
    /\ shared_state = DroneState
    /\ global_stats = SystemStats
    /\ system_running = TRUE
    /\ exited = "running"
    /\ cmd = ""
    /\ vi = 0
    /\ spurious = 0
    /\ raises = 0
    /\ wakes = 0
    /\ now = 0
    /\ next_wake = 0
    /\ delayed = 0
    /\ ups = 0
    /\ priority = [t \in Tasks |-> 0]
    /\ affinity = [t \in Tasks |-> -1]
    /\ warned = {}
    /\ transport = "unset"
    /\ dur = 0
    /\ maxdur = 0

\* The steps of task_vision while system_running is true.
VisionRunning ==
    \/ VisionLoop \/ VisionActiveLock \/ VisionActive \/ VisionFrame
    \/ VisionFpsLock \/ VisionFps \/ VisionCLoop \/ VisionCLock \/ VisionCCount

StartNext ==
    \/ MainSetPriority \/ MainPin
    \/ Flight \/ VisionRunning \/ Monitor \/ NetSetup \/ EmStart

StartSpec == StartInit /\ [][StartNext]_vars

(************************** task_monitor alone *****************************)
\* The statistics and the drone state task_monitor can find when it wakes.
CounterValues == {0, 2}
StatusValues == {"STANDBY", "TRIGGERED", "ACTIVE"}
FoundStates == {DroneState,
                [DroneState EXCEPT !.throttle = 50, !.altitude = 500000,
                                   !.emergency_triggered = TRUE]}

\* task_monitor is the only task that runs; the other tasks do nothing.
MonitorInit ==
    /\ build \in Builds
    /\ scheduled = {"monitor"}
    /\ sigleft = 0
    /\ pending = 0
    /\ pc = [t \in Threads |->
               CASE t = "flight"  -> "fl_loop"
                 [] t = "vision"  -> IF build = "final" THEN "v_loop" ELSE "vc_start"
                 [] t = "net"     -> "net_setup"
                 [] t = "emerg"   -> "em_start"
                 [] t = "monitor" -> IF build = "final" THEN "mon_loop" ELSE "mon_first_sleep"
                 [] OTHER         -> "m_join"]
    /\ cpc = [t \in Threads |-> "none"]
    /\ holds = [t \in Threads |-> {}]
    /\ shared_state \in FoundStates
    /\ \E l \in CounterValues, a \in CounterValues, m \in CounterValues,
          n \in CounterValues, p \in PreemptSamples, f \in FpsSamples,
          vf \in CounterValues, e \in StatusValues :
         global_stats = [flight_loops |-> l, flight_exec_avg_us |-> a,
                         flight_deadline_misses |-> m, net_packets |-> n,
                         net_preempts |-> p, vision_fps |-> f, vision_frames |-> vf,
                         vision_active |-> FALSE, emergency_status |-> e]
    /\ system_running = TRUE
    /\ exited = "running"
    /\ cmd = ""
    /\ vi = 0
    /\ spurious = 0
    /\ raises = 0
    /\ wakes = 0
    /\ now = 0
    /\ next_wake = 0
    /\ delayed = 0
    /\ ups = 0
    /\ priority = PriorityTable
    /\ affinity = [t \in Tasks |-> -1]
    /\ warned = {}
    /\ transport = "unset"
    /\ dur = 0
    /\ maxdur = 0

MonitorNext == Monitor

MonitorSpec == MonitorInit /\ [][MonitorNext]_vars

(******************************* properties ********************************)
\* The statements at which a thread is suspended: sleep_until / sleep_for at
\* the end of a loop body (the position of the loop test that follows), the
\* grace delay of task_emergency, and the blocked cv_emergency.wait.
SleepPoints == {"fl_loop", "v_loop", "v_frame", "vc_start", "net_loop", "em_sleep",
                "em_wait", "mon_first_sleep", "mon_loop"}

Sleeping(t) == cpc[t] = "none" /\ pc[t] \in SleepPoints

\* Thread t is at a statement that reads or writes a field of DroneState.
Accessing(t) ==
    \/ cpc[t] = "c_motors"
    \/ /\ cpc[t] = "none"
       /\ \/ pc[t] \in {"fl_velocity", "fl_altitude", "net_apply", "mon_state"}
          \/ pc[t] = "em_active" /\ build = "collector"

\* The tasks that poll system_running at the top of a loop.
LoopTasks == {"flight", "vision", "net", "monitor"}

\* The positions at which a task waits for state_mutex.
StateLockWaits == {"fl_state_lock", "net_state_lock", "mon_state_lock"}

\* The positions at which a task waits for stats_mutex.
StatsLockWaits == {"fl_miss_lock", "fl_stats_lock", "v_active_lock", "v_fps_lock",
                   "v_final_lock", "vc_lock", "net_stats_lock", "net_panic_lock",
                   "em_stats_lock", "mon_stats_lock"}

\* The mutex thread t is about to lock ("none" when it is not at a lock
\* statement): in the cleanup routine when t is inside it, else in its task.
Requests(t) ==
    IF cpc[t] # "none"
    THEN IF cpc[t] \in {"c_lock_state", "c_lock_stats"} THEN CleanupLock(cpc[t])
                                                        ELSE "none"
    ELSE IF pc[t] \in StateLockWaits \cup {"em_start", "em_relock"} THEN "state_mutex"
    ELSE IF pc[t] \in StatsLockWaits THEN "stats_mutex"
    ELSE "none"

\* The mutexes one snapshot of task_monitor locks.
MonitorNeeds ==
    IF build = "final" THEN {"stats_mutex", "state_mutex"} ELSE {"stats_mutex"}

\* The fields of SystemStats that belong to task_vision.
VisionFields == {"vision_fps", "vision_frames", "vision_active"}

StateHolders == {t \in Threads : "state_mutex" \in holds[t]}

\* The order of the values of SystemStats.emergency_status.
Rank(status) ==
    CASE status = "STANDBY"   -> 0
      [] status = "TRIGGERED" -> 1
      [] OTHER                -> 2

\* C1: after a PANIC the emergency task completes the shutdown sequence and
\* the process exits with status 0; stated as the safety part the code breaks:
\* the emergency task never blocks for ever on a mutex inside the shutdown
\* sequence and never ends the process abnormally there.
C1_EmergencyShutdownCompletes ==
    cpc["emerg"] \notin {"c_deadlocked", "c_terminate"}

\* C2: a termination signal handled on any thread, whatever locks it holds,
\* runs the shutdown sequence to completion, and no task keeps the process
\* from exiting: the handling thread never blocks on or aborts at a mutex it
\* owns, and a signalled run is never left with the emergency task blocked in
\* a wait that nobody can end.
C2_SignalShutdownCompletes ==
    /\ \A t \in Threads \ {"emerg"} : cpc[t] \notin {"c_deadlocked", "c_terminate"}
    /\ ~ /\ build = "collector"
         /\ ~system_running
         /\ ~shared_state.emergency_triggered
         /\ pc["net"] = "net_done"
         /\ pc["emerg"] = "em_wait"

\* C3: a thread that is sleeping (or blocked in the wait) holds neither
\* state_mutex nor stats_mutex.
C3_NoLockWhileSleeping ==
    \A t \in Threads : Sleeping(t) => holds[t] = {}

\* C4: no thread holds state_mutex and stats_mutex at once.
C4_LocksNeverNested ==
    \A t \in Threads : ~ ({"state_mutex", "stats_mutex"} \subseteq holds[t])

\* C5: a thread at a statement that reads or writes a DroneState field holds
\* state_mutex, at most one thread holds state_mutex, and while task_flight is
\* between its velocity update and its altitude update no other thread is at
\* such a statement.
C5_StateAccessUnderLock ==
    /\ \A t \in Threads : Accessing(t) => "state_mutex" \in holds[t]
    /\ Cardinality(StateHolders) <= 1
    /\ pc["flight"] = "fl_altitude" =>
          \A t \in Threads \ {"flight"} : ~Accessing(t)

\* A flight cycle is between its two updates while another thread that wants
\* DroneState waits for the mutex.
C5_Witness ==
    /\ pc["flight"] = "fl_altitude" /\ cpc["flight"] = "none"
    /\ \/ pc["net"] = "net_state_lock"
       \/ pc["monitor"] = "mon_state_lock"
       \/ \E t \in Threads : cpc[t] = "c_lock_state"

\* C6: emergency_triggered starts false and no step takes it from true back
\* to false.
C6_EmergencyMonotonic ==
    /\ ~shared_state.emergency_triggered
    /\ [][shared_state.emergency_triggered => shared_state.emergency_triggered']_vars

\* The flag is still true after a second PANIC and after the shutdown routine
\* has zeroed the motors.
C6_Witness ==
    /\ shared_state.emergency_triggered
    /\ \/ raises = 2
       \/ \E t \in Threads : cpc[t] = "c_lock_stats"

\* C7: a second PANIC is a no-op on the flag, the emergency status and the
\* actuation outputs, and the emergency task passes its wait once.
C7_SecondRaiseNoOp ==
    /\ [](wakes <= 1)
    /\ [][raises >= 1 /\ raises' = raises + 1 =>
             shared_state' = shared_state /\ shared_state'.emergency_triggered]_vars
    /\ [][raises >= 2 /\ pc["net"] = "net_panic_status" /\ pc'["net"] = "net_loop" =>
             global_stats'.emergency_status = global_stats.emergency_status]_vars

\* C8: two threads are never inside the shutdown routine at the same time.
C8_ShutdownEnteredOnce ==
    Cardinality({t \in Threads : cpc[t] # "none"}) <= 1

\* C9: the emergency status never moves backward (ACTIVE to TRIGGERED or
\* STANDBY, TRIGGERED to STANDBY) and never skips TRIGGERED.
C9_StatusOnlyForward ==
    [][/\ Rank(global_stats'.emergency_status) >= Rank(global_stats.emergency_status)
       /\ Rank(global_stats'.emergency_status) <= Rank(global_stats.emergency_status) + 1]_vars

\* C10: the emergency task is past its wait only when emergency_triggered is
\* true (so it never reaches the status-ACTIVE step with the flag false), and
\* while it is blocked in the wait (and not running a signal handler) it does
\* not hold state_mutex.
C10_PredicateWait ==
    /\ pc["emerg"] \in {"em_stats_lock", "em_active", "em_sleep", "em_cleanup", "em_done"}
          => shared_state.emergency_triggered
    /\ pc["emerg"] = "em_wait" /\ cpc["emerg"] = "none" =>
          "state_mutex" \notin holds["emerg"]

\* The task was woken spuriously, went back to waiting, and later got past
\* the wait to the status-ACTIVE step.
C10_Witness ==
    /\ spurious > 0
    /\ pc["emerg"] = "em_active"
    /\ "state_mutex" \in holds["emerg"]

C12_MotorsCutWithinGrace ==
    /\ {"flight", "net", "emerg"} \subseteq scheduled
    /\ pc["emerg"] \in {"em_cleanup", "em_done"}
    => /\ shared_state.throttle = 0
       /\ shared_state.pitch = 0
       /\ shared_state.roll = 0

\* C13: once the emergency task has set the status to ACTIVE, no step changes
\* flight_deadline_misses or net_packets.
C13_CountersFrozen ==
    [][pc["emerg"] \in {"em_sleep", "em_cleanup", "em_done"} =>
          /\ global_stats'.flight_deadline_misses = global_stats.flight_deadline_misses
          /\ global_stats'.net_packets = global_stats.net_packets]_vars

\* C14: the deadline-miss counter goes up by exactly one for every cycle
\* into which a delay longer than the period was injected: whenever
\* task_flight is back on schedule at the top of a cycle, the misses counted
\* equal the delayed cycles.
C14_OneMissPerDelayedCycle ==
    now <= next_wake => global_stats.flight_deadline_misses = delayed

\* C15: whenever state_mutex is released the altitude is not negative, and a
\* flight step that clamps the altitude to 0 sets the velocity to 0 in the
\* same critical section.
C15_AltitudeNonNegative ==
    /\ [](shared_state.altitude >= 0)
    /\ [][global_stats'.flight_loops = global_stats.flight_loops + 1
            /\ RawAltitude(shared_state) < 0
          => shared_state'.altitude = 0 /\ shared_state'.velocity = 0]_vars

\* A step has clamped a falling drone at full throttle to the ground.
C15_Witness ==
    /\ global_stats.flight_loops > 0
    /\ shared_state.throttle = 100
    /\ shared_state.altitude = 0
    /\ shared_state.velocity = 0

\* C16: a recognised token has exactly its table effect on DroneState and
\* leaves every other field as it was; two UPs from start-up give throttle
\* 20, DOWN at throttle 0 gives 0.
C16_CommandTable ==
    [][pending' = pending - 1 =>
         LET s == shared_state
             t == shared_state'
         IN  /\ cmd' = "UP" =>
                   t = [s EXCEPT !.throttle =
                           IF s.throttle + 10 > 100 THEN 100 ELSE s.throttle + 10]
             /\ cmd' = "DOWN" =>
                   t = [s EXCEPT !.throttle =
                           IF s.throttle - 10 < 0 THEN 0 ELSE s.throttle - 10]
             /\ cmd' = "FRONT" => t = [s EXCEPT !.pitch = 15]
             /\ cmd' = "BACK" => t = [s EXCEPT !.pitch = -15]
             /\ cmd' = "LEFT" => t = [s EXCEPT !.roll = -15]
             /\ cmd' = "RIGHT" => t = [s EXCEPT !.roll = 15]
             /\ cmd' = "STOP" => t = [s EXCEPT !.pitch = 0, !.roll = 0]
             /\ cmd' = "PANIC" => t = [s EXCEPT !.emergency_triggered = TRUE]
             /\ ups' = 2 => t.throttle = 20
             /\ cmd' = "DOWN" /\ s.throttle = 0 => t.throttle = 0]_vars

\* UP then UP from start-up has given throttle 20.
C16_Witness == ups = 2 /\ cmd = "UP" /\ shared_state.throttle = 20

\* C17: in every reachable state 0 <= throttle <= 100.
C17_ThrottleInRange ==
    shared_state.throttle >= 0 /\ shared_state.throttle <= 100

\* An eleventh UP in a row has been applied at throttle 100.
C17_Witness == ups = 11 /\ shared_state.throttle = 100

\* C18, as the code has it: nine UPs in a row from throttle 0 give throttle
\* 90; the tenth gives 100 and every further one leaves it at 100.
C18_NineUps ==
    /\ ups = 9 => shared_state.throttle = 90
    /\ ups >= 10 => shared_state.throttle = 100

\* C18, as the specification has it: nine UPs in a row from throttle 0 give
\* throttle 100.
C18_NineUpsReachCap == ups = 9 => shared_state.throttle = 100

\* Nine UPs in a row have been applied.
C18_Witness == ups = 9 /\ cmd = "UP" /\ pending = MaxTokens - 9

\* C19: a token that is not recognised leaves DroneState and the emergency
\* status as they were; every token adds one to net_packets and stores a
\* preemption sample.
C19_UnrecognizedIgnored ==
    [][pending' = pending - 1 =>
         /\ cmd' \notin Recognized =>
               /\ shared_state' = shared_state
               /\ global_stats'.emergency_status = global_stats.emergency_status
         /\ global_stats'.net_packets = global_stats.net_packets + 1
         /\ global_stats'.net_preempts \in PreemptSamples]_vars

\* The token just handled was "UPX", after an UP had raised the throttle.
C19_Witness ==
    /\ cmd = "UPX"
    /\ global_stats.net_packets = 2
    /\ shared_state.throttle = 10

\* C20: task_monitor never holds stats_mutex and state_mutex at once (it
\* releases the first before it takes the second), and holds neither while
\* it sleeps.
C20_MonitorLocksApart ==
    cpc["monitor"] = "none" =>
        /\ ~ ({"state_mutex", "stats_mutex"} \subseteq holds["monitor"])
        /\ pc["monitor"] \in {"mon_first_sleep", "mon_loop"} => holds["monitor"] = {}

\* The monitor reads DroneState with state_mutex only, its stats snapshot done.
C20_Witness ==
    /\ cpc["monitor"] = "none"
    /\ pc["monitor"] = "mon_state"
    /\ holds["monitor"] = {"state_mutex"}

\* C21: task_monitor running alone changes no field of DroneState, and the
\* only fields of SystemStats it changes are the rate counters it sets to 0
\* after reading them: net_packets in the final build, vision_frames and
\* net_packets in the collector build.  The average, the deadline misses, the
\* preemption counts, the loop count and the emergency status stay as found.
C21_MonitorFrame ==
    [][ /\ shared_state' = shared_state
        /\ \A f \in DOMAIN global_stats :
              \/ global_stats'[f] = global_stats[f]
              \/ /\ f \in (IF build = "final" THEN {"net_packets"}
                                            ELSE {"vision_frames", "net_packets"})
                 /\ global_stats'[f] = 0 ]_vars

\* The monitor has just taken its snapshot of statistics that were not zero.
C21_Witness ==
    /\ pc["monitor"] \in {"mon_state_lock", "mon_state"}
    /\ global_stats.net_packets = 0
    /\ global_stats.flight_loops = 2
    /\ global_stats.flight_exec_avg_us = 2
    /\ global_stats.flight_deadline_misses = 2
    /\ global_stats.vision_frames = 2
    /\ global_stats.emergency_status = "ACTIVE"
    /\ shared_state.throttle = 50

\* C22: once system_running is false every looping task (flight, vision,
\* networking, monitor) observes it at the top of a cycle and leaves its
\* loop, and no task is cancelled inside a critical section; stated as the
\* safety part the code breaks: std::exit(0) never ends the process while a
\* looping task is inside a critical section, and no looping task is left
\* waiting for a mutex whose owner will never release it.
C22_LoopsLeaveOnStop ==
    /\ exited = "exit0" =>
          \A t \in LoopTasks : cpc[t] = "none" => holds[t] = {}
    /\ \A u \in Threads :
          cpc[u] = "c_deadlocked" /\ "state_mutex" \in holds[u] =>
             \A t \in (LoopTasks \cap scheduled) \ {u} :
                 ~(cpc[t] = "none" /\ pc[t] \in StateLockWaits)

\* C23: a set_priority call that fails is not fatal, for any subset of the
\* four calls: the warning is reported for that task and nothing else
\* happens.  The task keeps the default priority, no task is moved or
\* stopped, DroneState, SystemStats and system_running are as before, and
\* the program keeps running.
C23_PriorityFailureNotFatal ==
    /\ [](/\ system_running /\ exited = "running"
          /\ \A t \in warned : priority[t] = 0)
    /\ [][ pc["main"] \in PrioPcs /\ pc'["main"] # pc["main"] =>
             /\ UNCHANGED <<shared_state, global_stats, system_running, exited,
                            holds, cpc, affinity>>
             /\ \A t \in Tasks : pc'[t] = pc[t]
             /\ \/ /\ warned' = warned
                   /\ priority' =
                        [priority EXCEPT ![PrioTask(pc["main"])] =
                                             PriorityTable[PrioTask(pc["main"])]]
                \/ /\ warned' = warned \cup {PrioTask(pc["main"])}
                   /\ priority' = priority ]_vars

\* All four calls have failed, main is at the joins, and task_flight has
\* completed a cycle at default priority.
C23_Witness ==
    /\ warned = Prioritized
    /\ pc["main"] = "m_join"
    /\ \A t \in Tasks : priority[t] = 0
    /\ global_stats.flight_loops > 0
    /\ system_running

\* C24: when the transport setup fails (socket or bind), the command task
\* reports the error and returns: it is at its end, it has received and
\* applied no command, and it has raised no emergency.
C24_SetupFailureEndsCommandTask ==
    transport = "failed" =>
        /\ pc["net"] = "net_done"
        /\ cmd = ""
        /\ raises = 0

\* C25: the scheduling assignment is applied once per task at start-up.  A
\* task's priority is the default or its assigned value; when the calls have
\* succeeded the emergency task has 90, above every other task, flight 50,
\* networking 30, vision 10 and the monitor the default; a priority that has
\* been set is never changed, pins are set in one step of main only, and
\* once main is at its joins no priority and no pin changes any more.
C25_PriorityAssignment ==
    /\ [](pc["main"] = "m_join" /\ warned = {} =>
            /\ priority["emerg"] = 90 /\ priority["flight"] = 50
            /\ priority["net"] = 30 /\ priority["vision"] = 10
            /\ priority["monitor"] = 0
            /\ \A t \in Tasks \ {"emerg"} : priority["emerg"] > priority[t])
    /\ [][ /\ \A t \in Tasks : priority[t] # 0 => priority'[t] = priority[t]
           /\ priority'["monitor"] = 0
           /\ affinity' # affinity => pc["main"] = "m_pin"
           /\ pc["main"] = "m_join" => UNCHANGED <<priority, affinity>> ]_vars

\* Start-up is over with every call successful and the four threads pinned
\* to core 0, and task_flight has completed a cycle since.
C25_Witness ==
    /\ pc["main"] = "m_join"
    /\ warned = {}
    /\ priority["emerg"] = 90
    /\ affinity["flight"] = 0
    /\ global_stats.flight_loops > 0

\* C26: flight_deadline_misses and flight_loops never decrease, and
\* net_packets decreases only in the monitor's snapshot step, which sets it
\* to 0; no other task and no routine lowers a counter.
C26_CountersMonotonic ==
    [][ /\ global_stats'.flight_deadline_misses >= global_stats.flight_deadline_misses
        /\ global_stats'.flight_loops >= global_stats.flight_loops
        /\ global_stats'.net_packets < global_stats.net_packets =>
              /\ pc["monitor"] = "mon_stats" /\ pc'["monitor"] # "mon_stats"
              /\ cpc["monitor"] = "none"
              /\ global_stats'.net_packets = 0 ]_vars

\* A datagram has been counted and the monitor has zeroed the packet counter
\* since, while the flight counters have gone up.
C26_Witness ==
    /\ cmd # ""
    /\ pc["net"] \notin {"net_stats_lock", "net_stats"}
    /\ global_stats.net_packets = 0
    /\ global_stats.flight_loops > 0
    /\ global_stats.flight_deadline_misses > 0

\* C27: the flight deadlines do not drift: after k cycles the deadline is
\* the start time (0) plus k times the 10 ms period, however long a cycle
\* ran and however late it woke; and a cycle ends by sleeping until that
\* deadline, so the task is never at its loop test before the deadline (it
\* is there later only when the deadline had passed already).
C27_NoDeadlineDrift ==
    /\ next_wake = Period * global_stats.flight_loops
    /\ now >= next_wake

\* Cycles have been delayed, the task is behind its schedule, and the
\* deadline is still on the 10 ms grid.
C27_Witness ==
    /\ delayed >= 2
    /\ global_stats.flight_loops = 4 /\ next_wake = 40
    /\ now > next_wake

\* C28: a flight cycle records a deadline miss exactly when the time at the
\* start of the cycle is past that cycle's deadline (previous deadline plus
\* the period), and then exactly one; so flight_deadline_misses never
\* exceeds the number of cycles started, flight_loops + 1.
C28_MissExactlyWhenLate ==
    /\ [](global_stats.flight_deadline_misses <= global_stats.flight_loops + 1)
    /\ [][ global_stats'.flight_loops = global_stats.flight_loops + 1 =>
             global_stats'.flight_deadline_misses =
                 global_stats.flight_deadline_misses
                   + (IF now > next_wake + Period THEN 1 ELSE 0) ]_vars

\* Some cycles have started late and recorded a miss, others have not.
C28_Witness ==
    /\ global_stats.flight_deadline_misses >= 2
    /\ global_stats.flight_deadline_misses < global_stats.flight_loops - 1

\* C29: a flight cycle that finds emergency_triggered set zeroes throttle,
\* pitch and roll and does not run the integration step: altitude and
\* velocity are after the cycle what they were before it.
C29_NoIntegrationInEmergency ==
    [][ shared_state.emergency_triggered
          /\ global_stats'.flight_loops = global_stats.flight_loops + 1 =>
             /\ shared_state'.throttle = 0
             /\ shared_state'.pitch = 0
             /\ shared_state'.roll = 0
             /\ shared_state'.altitude = shared_state.altitude
             /\ shared_state'.velocity = shared_state.velocity ]_vars

\* C30: after every flight cycle the rolling average is (previous average +
\* this cycle's duration) / 2, truncated, and flight_loops has grown by one;
\* so the average is never negative and never above the largest duration
\* measured so far.
C30_RollingAverage ==
    /\ [](/\ global_stats.flight_exec_avg_us >= 0
          /\ global_stats.flight_exec_avg_us <= maxdur)
    /\ [][ global_stats'.flight_loops # global_stats.flight_loops =>
             /\ global_stats'.flight_loops = global_stats.flight_loops + 1
             /\ 2 * global_stats'.flight_exec_avg_us
                   <= global_stats.flight_exec_avg_us + dur'
             /\ global_stats.flight_exec_avg_us + dur'
                   <= 2 * global_stats'.flight_exec_avg_us + 1 ]_vars

\* The average has been halved with a remainder: an odd sum was truncated.
C30_Witness ==
    /\ global_stats.flight_loops >= 3
    /\ dur = 0
    /\ global_stats.flight_exec_avg_us = 1
    /\ maxdur = 5

\* C31: during the grace delay of the emergency task (status ACTIVE, before
\* the process ends) the monitor can complete a full snapshot and print a
\* line showing ACTIVE: it is not blocked on a lock for the whole delay.
\* Stated as the safety part the code breaks: while it sleeps through the
\* grace delay the emergency task owns no mutex the monitor's snapshot locks.
C31_SnapshotDuringGrace ==
    pc["emerg"] = "em_sleep" => holds["emerg"] \cap MonitorNeeds = {}

\* C32: no thread ever tries to lock a mutex it already owns, on any path:
\* the tasks, the emergency task calling cleanup_and_exit after its wait,
\* and the signal handler calling it on an interrupted thread.
C32_NoSelfRelock ==
    \A t \in Threads : Requests(t) \notin holds[t]

\* C33: the lock order is acyclic.  No thread ever requests state_mutex
\* while it holds stats_mutex (where both are held, state_mutex was taken
\* first); and before any emergency or signal no two threads wait for a
\* mutex the other one holds.
C33_LockOrderAcyclic ==
    /\ \A t \in Threads :
          Requests(t) = "state_mutex" => "stats_mutex" \notin holds[t]
    /\ (/\ ~shared_state.emergency_triggered
        /\ \A t \in Threads : cpc[t] = "none") =>
          \A t, u \in scheduled :
              ~(t # u /\ Requests(t) \in holds[u] /\ Requests(u) \in holds[t])

\* C34: the emergency wake-up is never lost.  The flag is persistent and is
\* set and tested under state_mutex, so the emergency task is never blocked
\* in its wait while the flag is set, and whenever it takes the lock with
\* the flag set (at its start, when the notification came before it began
\* to wait, or after a wake-up) it goes on past the wait.
C34_WakeupNotLost ==
    /\ [](shared_state.emergency_triggered => pc["emerg"] # "em_wait")
    /\ [][ /\ shared_state.emergency_triggered
           /\ pc["emerg"] \in {"em_start", "em_relock"}
           /\ pc'["emerg"] # pc["emerg"]
           => pc'["emerg"] = "em_stats_lock" ]_vars

\* The flag has been set and the notification sent, with the command task
\* out of its critical section, before the emergency task has started to wait.
C34_Witness ==
    /\ shared_state.emergency_triggered
    /\ raises > 0
    /\ "emerg" \in scheduled
    /\ pc["emerg"] = "em_start"
    /\ pc["net"] = "net_loop"

\* C35: the vision task never acquires state_mutex and never reads or
\* writes a field of DroneState; it changes only its own fields of
\* SystemStats, and only while it holds stats_mutex.  So it never holds
\* the mutex the emergency task needs in order to wake.
C35_VisionFrame ==
    /\ [](cpc["vision"] = "none" =>
            /\ "state_mutex" \notin holds["vision"]
            /\ Requests("vision") # "state_mutex"
            /\ ~Accessing("vision"))
    /\ [][ cpc["vision"] = "none" /\ pc'["vision"] # pc["vision"] =>
             /\ shared_state' = shared_state
             /\ \A f \in DOMAIN global_stats \ VisionFields :
                   global_stats'[f] = global_stats[f]
             /\ global_stats' # global_stats => "stats_mutex" \in holds["vision"]
         ]_vars

\* The vision task is inside its stats critical section, having published an
\* fps value before, while the emergency task has woken and gone past its wait.
C35_Witness ==
    /\ "stats_mutex" \in holds["vision"] /\ cpc["vision"] = "none"
    /\ global_stats.vision_active
    /\ wakes > 0
    /\ pc["emerg"] = "em_stats_lock"

====
